---- MODULE Spec2Model ----
(***************************************************************************)
(* Model of abc-uiautomation: keyboard automation of the ABC Client4       *)
(* accounting program through its accessibility tree.                      *)
(*                                                                         *)
(* The automation functions (src/src/lib.rs, accounts_receivable.rs,       *)
(* customer_file.rs, reports.rs) are modelled step by step: every locate,  *)
(* click, keystroke dispatch, sleep and property read is one action, and   *)
(* every `?` of the source is an early return with Err.  The host          *)
(* application (Client4) is the environment: it reacts to the keystrokes   *)
(* it receives, at once (Spec) or after a redraw latency (SpecAsync).      *)
(* Strings are sequences of key/character tokens.                          *)
(***************************************************************************)
EXTENDS Integers, Sequences, FiniteSets

(***************************************************************************)
(* Bounds of the model                                                     *)
(***************************************************************************)
\* number of invoice records the host holds (numbers FirstInvoice .. )
MaxInvoice == 2

(***************************************************************************)
(* Program constants                                                       *)
(***************************************************************************)
SHORT_WAIT_MS == 100
\* a wrapper timeout as short as one SHORT_WAIT_MS
WRAPPER_TIMEOUT_SHORT == SHORT_WAIT_MS
\* timeout set by create_matcher_wrapper: SHORT_WAIT_MS * 30
WRAPPER_TIMEOUT_MS == SHORT_WAIT_MS * 30
\* ordinal of the "paid" text box on the invoices screen
PAID_ORD == 29
\* ordinal of the "invoice total" text box on the invoices screen
TOTAL_ORD == 38
\* ordinal of the JDF account text box on the customer screen
JDF_ACCOUNT_ORD == 28
\* sleep after the resubmission macro
JDF_SETTLE_MS == 2000
\* the invoice number of the documentation examples
FirstInvoice == 123

Invoices == FirstInvoice .. (FirstInvoice + MaxInvoice - 1)
\* what the first text box of the invoices screen can show: 0 is a blank form
Shown == {0} \cup Invoices

(***************************************************************************)
(* Strings                                                                 *)
(***************************************************************************)
EmptyString == << >>

Digit(d) == CASE d = 0 -> "0" [] d = 1 -> "1" [] d = 2 -> "2" [] d = 3 -> "3"
              [] d = 4 -> "4" [] d = 5 -> "5" [] d = 6 -> "6" [] d = 7 -> "7"
              [] d = 8 -> "8" [] d = 9 -> "9"

RECURSIVE to_string(_)
\* u64::to_string: the decimal rendering, most significant digit first
to_string(n) == IF n < 10 THEN << Digit(n) >>
               ELSE to_string(n \div 10) \o << Digit(n % 10) >>

\* name.contains(part): part occurs as a contiguous run of name
Contains(name, part) ==
    \E i \in 0 .. (Len(name) - Len(part)) :
        SubSeq(name, i + 1, i + Len(part)) = part

InvoicesTitle == << "Sales", "-", "Invoices", "(R)" >>
CustomersTitle == << "Sales", "-", "Customers", "(C)" >>
\* name of the dialog send_ctrl_n looks for
SaveChangesName == << "Save", "changes", "before", "proceeding?" >>

\* values the host can display in an amount field
AmountStrings ==
    { EmptyString,
      << "1", "5", "0", ".", "0", "0" >>,
      << "1", "5", "0", ".", "0" >>,
      << " ", "1", "5", "0", ".", "0", "0" >>,
      << "N", "/", "A" >>,
      << "n", "/", "a" >> }

\* values the host can display in the JDF account field
AccountStrings == { EmptyString, << "7", "7", "1" >> }

CustomerCodes == { << "D", "O", "E", "J", "O", " ", "0" >> }

(***************************************************************************)
(* Elements of the accessibility tree                                      *)
(***************************************************************************)
El(w, o) == [win |-> w, ord |-> o]
Root == El("Root", -1)
Abc == El("Abc", -1)
Other == El("Other", -1)
InvScreen == El("InvScreen", -1)
CustScreen == El("CustScreen", -1)
\* the "Save changes before proceeding?" dialog, a top-level window
Popup == El("Popup", -1)
NotFound == El("NotFound", -1)
\* the i-th (from 0) ThunderRT6TextBox of a screen
TextBox(screen, i) == El(screen.win, i)

\* names another top-level window (an editor, a file manager) can carry
OtherNames ==
    { << "Sales", "-", "Invoices", "(R)", ".txt", "-", "Notepad" >>,
      << "Sales", "-", "Customers", "(C)", ".txt", "-", "Notepad" >> }

\* the top-level windows of the desktop, in tree order, with Other's name
TreeConfigs ==
    { [tops |-> << Abc >>, name |-> << "Notepad" >>] }
    \cup { [tops |-> t, name |-> n] :
             t \in { << Other, Abc >>, << Abc, Other >> }, n \in OtherNames }

\* numbers of ThunderRT6TextBox controls the invoices screen can have
InvBoxCounts == { 0, PAID_ORD, TOTAL_ORD, TOTAL_ORD + 1 }
\* numbers of ThunderRT6TextBox controls the customer screen can have
CustBoxCounts == { 0, JDF_ACCOUNT_ORD, JDF_ACCOUNT_ORD + 1 }

VARIABLES
    \* ---- host application and desktop (environment) ----
    tops,        \* top-level windows in tree order
    otherName,   \* name of the window Other
    invOpen,     \* the invoices screen is open inside Client4
    custOpen,    \* the customer screen is open inside Client4
    invLen,      \* number of text boxes of the invoices screen
    custLen,     \* number of text boxes of the customer screen
    dialog,      \* the "Save changes before proceeding?" popup is showing
    due,         \* ms until a dialog the host is raising shows (0: none)
    cur,         \* invoice record the host is on (0: blank form)
    shown,       \* invoice displayed on the invoices screen (0: blank)
    left,        \* ms until the display has caught up with the host (0: settled)
    latency,     \* ms the host takes to redraw after a record change
    sent,        \* invoices that were sent to JDF (payment posted)
    \* ---- the running call ----
    op,          \* function being executed, "idle" if none
    pc,          \* position in that function
    arg,         \* its arguments
    prev,        \* what the caller's previous call returned
    popup,                      \* local of send_ctrl_n: the located dialog
    customer_code_control,      \* local of load_customer_record
    trace,       \* events of the call so far, in order
    result,      \* its return value
    invoice_num_control,        \* local: handle of the first text box
    all_text_boxes,             \* local: result of find_all
    paid_control_value,         \* local
    total_control_value,        \* local
    invoice_num_control_value   \* local

\* what no keystroke changes
layout == << tops, otherName, invLen, custLen, latency >>
\* what the host displays
display == << shown, left >>
\* the dialog and the one on its way
asking == << dialog, due >>
host == << layout, invOpen, custOpen, asking, cur, display, sent >>
locals == << invoice_num_control, all_text_boxes, paid_control_value, total_control_value,
             invoice_num_control_value >>
\* locals of send_ctrl_n and load_customer_record
scratch == << popup, customer_code_control >>
vars == << host, op, pc, arg, prev, scratch, trace, result, locals >>

(***************************************************************************)
(* The accessibility tree as the provider exposes it                       *)
(***************************************************************************)
NameOf(e) ==
    CASE e.ord >= 0 -> EmptyString
      [] e = Root -> << "Desktop" >>
      [] e = Abc -> << "ABC", "Accounting", "Client" >>
      [] e = Other -> otherName
      [] e = InvScreen -> InvoicesTitle
      [] e = CustScreen -> CustomersTitle
      [] e = Popup -> SaveChangesName
      [] OTHER -> EmptyString

ClassOf(e) ==
    CASE e.ord >= 0 -> "ThunderRT6TextBox"
      [] e = Abc -> "ThunderRT6MDIForm"
      [] e \in { InvScreen, CustScreen } -> "ThunderRT6FormDC"
      [] OTHER -> "Window"

Children(e) ==
    CASE e.ord >= 0 -> << >>
      [] e = Root -> tops \o (IF dialog THEN << Popup >> ELSE << >>)
      [] e = Abc -> (IF invOpen THEN << InvScreen >> ELSE << >>)
                    \o (IF custOpen THEN << CustScreen >> ELSE << >>)
      [] e = InvScreen -> [i \in 1 .. invLen |-> TextBox(InvScreen, i - 1)]
      [] e = CustScreen -> [i \in 1 .. custLen |-> TextBox(CustScreen, i - 1)]
      [] OTHER -> << >>

\* the subtrees of the elements es in tree order (depth first)
WalkAll[es \in Seq([win : STRING, ord : Int])] ==
    IF es = << >> THEN << >>
    ELSE << Head(es) >> \o WalkAll[Children(Head(es))] \o WalkAll[Tail(es)]
\* the elements of the subtree of e in tree order
Walk(e) == WalkAll[<< e >>]

InSeq(x, s) == SelectSeq(s, LAMBDA y : y = x) # << >>

\* e is an element of the current tree
InTree(e) == InSeq(e, Walk(Root))
\* e lies in the subtree of w
InSubtree(e, w) == InTree(w) /\ InSeq(e, Walk(w))

\* UIMatcher .from(scope).contains_name(part).find_first()
FindFirstByName(scope, part) ==
    LET m == SelectSeq(Walk(scope), LAMBDA e : Contains(NameOf(e), part))
    IN  IF m = << >> THEN NotFound ELSE Head(m)

\* UIMatcher .from(scope).name(name).find_first(): the name as a whole
FindFirstNamed(scope, name) ==
    LET m == SelectSeq(Walk(scope), LAMBDA e : NameOf(e) = name)
    IN  IF m = << >> THEN NotFound ELSE Head(m)

\* UIMatcher .from(scope).classname(c): all matches in tree order
MatchClass(scope, c) ==
    IF InTree(scope)
    THEN SelectSeq(Walk(scope), LAMBDA e : ClassOf(e) = c)
    ELSE << >>

\* Vec::get(i)
Get(v, i) == IF i < Len(v) THEN v[i + 1] ELSE NotFound

(***************************************************************************)
(* Results and events                                                      *)
(***************************************************************************)
NoResult == [tag |-> "None", val |-> "none"]
Ok(v) == [tag |-> "Ok", val |-> v]
Err(m) == [tag |-> "Err", val |-> m]
Unit == "()"

Ev(kind, target, keys, ms) ==
    [ev |-> kind, target |-> target, keys |-> keys, ms |-> ms]

NoArg == [window |-> NotFound, invoice_num |-> 0, customer_code |-> EmptyString,
          save_changes |-> FALSE, starting |-> EmptyString,
          ending |-> EmptyString, menu |-> EmptyString,
          report |-> EmptyString]
\* the functions that bring up a screen
ScreenOps == { "load_invoices_screen", "load_customer_screen" }
\* no previous call, or one that is of no interest to the next
NoPrev == [f |-> "none", val |-> NotFound]

\* no call is running, no dialog is up and the display is settled
InitIdle ==
    /\ dialog = FALSE
    /\ due = 0
    /\ shown = cur
    /\ left = 0
    /\ op = "idle"
    /\ pc = "idle"
    /\ arg = NoArg
    /\ popup = NotFound
    /\ customer_code_control = NotFound
    /\ prev = NoPrev
    /\ trace = << >>
    /\ result = NoResult
    /\ invoice_num_control = NotFound
    /\ all_text_boxes = << >>
    /\ paid_control_value = EmptyString
    /\ total_control_value = EmptyString
    /\ invoice_num_control_value = EmptyString

\* a host that redraws at once
Init ==
    /\ latency = 0
    /\ \E cfg \in TreeConfigs : tops = cfg.tops /\ otherName = cfg.name
    /\ invOpen \in BOOLEAN
    /\ custOpen \in BOOLEAN
    /\ invLen \in InvBoxCounts
    /\ custLen \in CustBoxCounts
    /\ cur \in (IF invOpen THEN Shown ELSE {0})
    /\ sent \in SUBSET Invoices
    /\ InitIdle

\* redraw times of a host that redraws asynchronously (ms): within
\* SHORT_WAIT_MS / 4, within SHORT_WAIT_MS, longer, and longer than the
\* waits of send_ctrl_n taken together
HostLatencies == { 20, 80, 150, 300 }

\* a host that redraws asynchronously; Client4 is the only window and its
\* screens have all their text boxes
InitAsync ==
    /\ latency \in HostLatencies
    /\ tops = << Abc >>
    /\ otherName = << "Notepad" >>
    /\ invOpen \in BOOLEAN
    /\ custOpen \in BOOLEAN
    /\ invLen = TOTAL_ORD + 1
    /\ custLen = JDF_ACCOUNT_ORD + 1
    /\ cur \in (IF invOpen THEN Shown ELSE {0})
    /\ sent \in SUBSET Invoices
    /\ InitIdle

\* a caller starts function f with arguments a
Call(f, first, a) ==
    /\ pc = "idle"
    /\ op' = f
    /\ pc' = first
    /\ arg' = a
    /\ trace' = << >>
    /\ result' = NoResult
    /\ prev' = IF prev.f = f
                  \/ (prev.f = "is_invoice_fully_paid"
                        /\ f = "send_invoice_to_jdf")
               THEN prev ELSE NoPrev
    /\ UNCHANGED << host, scratch, locals >>

\* the function returns r
Finish(r) ==
    /\ result' = r
    /\ pc' = "done"

\* the caller takes the result; the locals go out of scope
Return ==
    /\ pc = "done"
    /\ op' = "idle"
    /\ pc' = "idle"
    /\ arg' = NoArg
    /\ popup' = NotFound
    /\ customer_code_control' = NotFound
    /\ prev' = IF op \in ScreenOps /\ result.tag = "Ok"
               THEN [f |-> op, val |-> result.val]
               ELSE NoPrev
    /\ trace' = << >>
    /\ result' = NoResult
    /\ invoice_num_control' = NotFound
    /\ all_text_boxes' = << >>
    /\ paid_control_value' = EmptyString
    /\ total_control_value' = EmptyString
    /\ invoice_num_control_value' = EmptyString
    /\ UNCHANGED host

\* Return to a caller that keeps what is_invoice_fully_paid returned, and
\* on which paid and total values, for the call it makes next
ReturnKeeping ==
    /\ pc = "done"
    /\ op' = "idle"
    /\ pc' = "idle"
    /\ arg' = NoArg
    /\ popup' = NotFound
    /\ customer_code_control' = NotFound
    /\ prev' = IF op = "is_invoice_fully_paid" /\ result.tag = "Ok"
               THEN [f |-> op,
                     val |-> [fully_paid |-> result.val,
                              paid |-> paid_control_value,
                              total |-> total_control_value]]
               ELSE NoPrev
    /\ trace' = << >>
    /\ result' = NoResult
    /\ invoice_num_control' = NotFound
    /\ all_text_boxes' = << >>
    /\ paid_control_value' = EmptyString
    /\ total_control_value' = EmptyString
    /\ invoice_num_control_value' = EmptyString
    /\ UNCHANGED host

\* SendKeys that types {esc} to undo the earlier steps when the injection fails
SendKeysWithRollback(target, keys, interval, hostReaction, next) ==
    \/ /\ Finish(Err("InjectionFailed"))
       /\ trace' = Append(trace, Ev("send_keys", target, << "{esc}" >>,
                                    interval))
       /\ UNCHANGED host
    \/ /\ InTree(target)
       /\ trace' = Append(trace, Ev("send_keys", target, keys, interval))
       /\ hostReaction
       /\ pc' = next
       /\ UNCHANGED result

\* target.send_keys(keys, interval)?: the injection fails (always when the
\* handle is stale), or the keys reach the host, which reacts by hostReaction
SendKeys(target, keys, interval, hostReaction, next) ==
    \/ /\ Finish(Err("InjectionFailed"))
       /\ UNCHANGED << host, trace >>
    \/ /\ InTree(target)
       /\ trace' = Append(trace, Ev("send_keys", target, keys, interval))
       /\ hostReaction
       /\ pc' = next
       /\ UNCHANGED result

(***************************************************************************)
(* Host reactions.  A reaction happens at the last key of a dispatch; the  *)
(* provider then sleeps the interval of the dispatch (slept) before the    *)
(* call returns.                                                           *)
(***************************************************************************)
\* slept ms pass: a dialog the host is raising shows once its time has come
Pending(slept) ==
    /\ due' = IF due > slept THEN due - slept ELSE 0
    /\ dialog' = (dialog \/ (due > 0 /\ due <= slept))

\* slept ms pass with no new redraw: a redraw under way may complete
Settle(slept) ==
    /\ left' = IF left > slept THEN left - slept ELSE 0
    /\ shown' = IF left > slept THEN shown ELSE cur'

\* Redraw with a provider that returns right after the last key
RedrawNoSleep(slept) ==
    /\ left' = latency
    /\ shown' = IF latency > 0 THEN shown ELSE cur'

\* the host starts to redraw the record, then slept ms pass
Redraw(slept) ==
    /\ left' = IF latency > slept THEN latency - slept ELSE 0
    /\ shown' = IF latency > slept THEN shown ELSE cur'

\* {F10}R: the invoices screen opens with a blank form, or the host does
\* not follow (menu not reachable, redraw slower than the locate timeout)
HostOpenInvoices(slept) ==
    /\ invOpen' \in { invOpen, TRUE }
    /\ cur' = IF invOpen THEN cur ELSE 0
    /\ UNCHANGED << layout, custOpen, sent >>
    /\ Pending(slept)
    /\ Settle(slept)

\* {F10}C: the customer screen opens or the host does not follow
HostOpenCustomers(slept) ==
    /\ custOpen' \in { custOpen, TRUE }
    /\ UNCHANGED << layout, invOpen, cur, sent >>
    /\ Pending(slept)
    /\ Settle(slept)

(***************************************************************************)
(* load_invoices_screen / load_customer_screen                             *)
(***************************************************************************)
\* FirstLocate without the early return: the macro is sent in any case
FirstLocateIgnored(f, title, next) ==
    /\ op = f
    /\ LET found == FindFirstByName(Root, title)
       IN  trace' = Append(trace, Ev("find_first", found, title,
                                     WRAPPER_TIMEOUT_MS))
    /\ pc' = next
    /\ UNCHANGED << host, op, arg, prev, scratch, result, locals >>

\* first locate: if let Ok(screen) = ... find_first() { return Ok(screen) }
FirstLocate(f, title, next) ==
    /\ op = f
    /\ LET found == FindFirstByName(Root, title)
       IN  /\ trace' = Append(trace, Ev("find_first", found, title,
                                        WRAPPER_TIMEOUT_MS))
           /\ IF found # NotFound
              THEN Finish(Ok(found))
              ELSE pc' = next /\ UNCHANGED result
    /\ UNCHANGED << host, op, arg, prev, scratch, locals >>

\* abc_window.send_keys(macro, SHORT_WAIT_MS * 3)?
OpeningMacro(f, macro, hostReaction, next) ==
    /\ op = f
    /\ SendKeys(arg.window, macro, SHORT_WAIT_MS * 3, hostReaction, next)
    /\ UNCHANGED << op, arg, prev, scratch, locals >>

\* SecondLocate replaced by trust in the macro: the screen is taken to be open
SecondLocateAssumed(f, title) ==
    /\ op = f
    /\ Finish(Ok(IF title = InvoicesTitle THEN InvScreen ELSE CustScreen))
    /\ UNCHANGED << host, op, arg, prev, scratch, trace, locals >>

\* the final expression: create_matcher_wrapper(..).contains_name(..).find_first()
SecondLocate(f, title) ==
    /\ op = f
    /\ LET found == FindFirstByName(Root, title)
       IN  /\ trace' = Append(trace, Ev("find_first", found, title,
                                        WRAPPER_TIMEOUT_MS))
           /\ Finish(IF found # NotFound THEN Ok(found)
                     ELSE Err("ElementNotFound"))
    /\ UNCHANGED << host, op, arg, prev, scratch, locals >>

call_load_invoices_screen ==
    Call("load_invoices_screen", "lis_find",
         [NoArg EXCEPT !.window = Abc])

lis_find ==
    /\ pc = "lis_find"
    /\ FirstLocate("load_invoices_screen", InvoicesTitle, "lis_send")

lis_send ==
    /\ pc = "lis_send"
    /\ OpeningMacro("load_invoices_screen", << "{F10}", "R" >>,
                    HostOpenInvoices(SHORT_WAIT_MS * 3), "lis_confirm")

lis_confirm ==
    /\ pc = "lis_confirm"
    /\ SecondLocate("load_invoices_screen", InvoicesTitle)

load_invoices_screen ==
    call_load_invoices_screen \/ lis_find \/ lis_send \/ lis_confirm

call_load_customer_screen ==
    Call("load_customer_screen", "lcs_find",
         [NoArg EXCEPT !.window = Abc])

lcs_find ==
    /\ pc = "lcs_find"
    /\ FirstLocate("load_customer_screen", CustomersTitle, "lcs_send")

lcs_send ==
    /\ pc = "lcs_send"
    /\ OpeningMacro("load_customer_screen", << "{F10}", "C" >>,
                    HostOpenCustomers(SHORT_WAIT_MS * 3), "lcs_confirm")

lcs_confirm ==
    /\ pc = "lcs_confirm"
    /\ SecondLocate("load_customer_screen", CustomersTitle)

load_customer_screen ==
    call_load_customer_screen \/ lcs_find \/ lcs_send \/ lcs_confirm

(***************************************************************************)
(* Host reactions on the invoices and customer screens                     *)
(***************************************************************************)
\* <number>{enter} typed into the first text box: the host brings up the
\* requested record, or another one, or a blank form (unknown number)
HostLoadInvoice(n, slept) ==
    /\ cur' \in { n } \cup Shown
    /\ UNCHANGED << layout, invOpen, custOpen, sent >>
    /\ Pending(slept)
    /\ Redraw(slept)

\* {up}<code>{enter}: the host brings up a customer record
HostLoadCustomer(slept) ==
    /\ UNCHANGED << layout, invOpen, custOpen, cur, sent >>
    /\ Pending(slept)
    /\ Redraw(slept)

\* {F9}7R: the host rejects the resubmission and keeps the record on
\* display, or accepts it (the record on display is then sent to JDF) and
\* moves to another record or, with no next record, stays on the same one
HostResubmit(slept) ==
    \/ /\ UNCHANGED << layout, invOpen, custOpen, cur, sent >>
       /\ Pending(slept)
       /\ Settle(slept)
    \/ /\ cur # 0
       /\ sent' = sent \cup { cur }
       /\ cur' \in Shown
       /\ UNCHANGED << layout, invOpen, custOpen >>
       /\ Pending(slept)
       /\ Redraw(slept)

\* Ctrl+N: a new (blank) record, or the host asks "Save changes before
\* proceeding?" and stays on the record, or the host does not follow
HostNewRecord(slept) ==
    \/ /\ cur' \in { cur, 0 }
       /\ UNCHANGED << layout, invOpen, custOpen, sent >>
       /\ Pending(slept)
       /\ Redraw(slept)
    \/ /\ dialog' = (dialog \/ latency <= slept)
       /\ due' = IF latency > slept THEN latency - slept ELSE 0
       /\ UNCHANGED << layout, invOpen, custOpen, cur, sent >>
       /\ Settle(slept)

\* an answer typed into the dialog ({enter}: save, {right}{enter}: discard):
\* the dialog closes and the host goes on to the new record
HostAnswer(slept) ==
    /\ dialog' = (due > 0 /\ due <= slept)
    /\ due' = IF due > slept THEN due - slept ELSE 0
    /\ cur' = 0
    /\ UNCHANGED << layout, invOpen, custOpen, sent >>
    /\ Redraw(slept)

\* {right}{enter} typed at the invoices screen: with the dialog up the keys
\* end in the dialog, which holds the keyboard focus, or are lost; with no
\* dialog they change nothing the model tracks
HostDiscardKeys(slept) ==
    \/ /\ dialog
       /\ HostAnswer(slept)
    \/ /\ UNCHANGED << layout, invOpen, custOpen, cur, sent >>
       /\ Pending(slept)
       /\ Settle(slept)

\* keys that change nothing the model tracks
HostNoChange(slept) ==
    /\ UNCHANGED << layout, invOpen, custOpen, cur, sent >>
    /\ Pending(slept)
    /\ Settle(slept)

\* the values the Value property of a text box can have
ValuesOf(e) ==
    CASE e = TextBox(InvScreen, 0) ->
            { IF shown = 0 THEN EmptyString ELSE to_string(shown) }
      [] e = TextBox(InvScreen, PAID_ORD) ->
            IF shown \in sent THEN AmountStrings \ { EmptyString }
            ELSE { EmptyString }
      [] e = TextBox(InvScreen, TOTAL_ORD) -> AmountStrings
      [] e = TextBox(CustScreen, JDF_ACCOUNT_ORD) -> AccountStrings
      [] OTHER -> { EmptyString }

(***************************************************************************)
(* Provider calls used by the functions                                    *)
(***************************************************************************)
\* element.click()?
Click(target, next) ==
    \/ /\ Finish(Err("InjectionFailed"))
       /\ UNCHANGED << host, trace >>
    \/ /\ InTree(target)
       /\ trace' = Append(trace, Ev("click", target, << >>, 0))
       /\ pc' = next
       /\ UNCHANGED << host, result >>

\* target.hold_send_keys(holdkeys, keys, interval)?
HoldSendKeys(target, holdkeys, keys, interval, hostReaction, next) ==
    \/ /\ Finish(Err("InjectionFailed"))
       /\ UNCHANGED << host, trace >>
    \/ /\ InTree(target)
       /\ trace' = Append(trace, Ev("hold_send_keys", target,
                                    << holdkeys >> \o keys, interval))
       /\ hostReaction
       /\ pc' = next
       /\ UNCHANGED result

\* wait(duration_ms)
Wait(duration_ms, next) ==
    /\ trace' = Append(trace, Ev("wait", NotFound, << >>, duration_ms))
    /\ pc' = next
    /\ UNCHANGED << layout, invOpen, custOpen, cur, sent, result >>
    /\ Pending(duration_ms)
    /\ Settle(duration_ms)

(***************************************************************************)
(* load_invoice, inlined in its callers                                    *)
(***************************************************************************)
\* AfterLoadInvoice that takes is_invoice_fully_paid into the body of
\* send_invoice_to_jdf
AfterLoadInvoiceConfused ==
    CASE op = "send_invoice_to_jdf" -> "sij_find_all"
      [] op = "is_invoice_fully_paid" -> "sij_find_all"
      [] OTHER -> "li_return"

\* where the caller goes on after load_invoice(..)? returned Ok(())
AfterLoadInvoice ==
    CASE op = "send_invoice_to_jdf" -> "sij_find_all"
      [] op = "is_invoice_fully_paid" -> "iifp_find_all"
      [] OTHER -> "li_return"

\* the keys load_invoice types: format!("{}{{enter}}", invoice_num)
LoadKeys(invoice_num) == to_string(invoice_num) \o << "{enter}" >>

\* create_matcher_wrapper(..).classname(..).from(invoices_window).find_first()?
li_find ==
    /\ pc = "li_find"
    /\ LET m == MatchClass(arg.window, "ThunderRT6TextBox")
           found == IF m = << >> THEN NotFound ELSE Head(m)
       IN  /\ trace' = Append(trace, Ev("find_first", found,
                                        << "ThunderRT6TextBox" >>,
                                        WRAPPER_TIMEOUT_MS))
           /\ invoice_num_control' = found
           /\ IF found = NotFound
              THEN Finish(Err("ElementNotFound"))
              ELSE pc' = "li_click" /\ UNCHANGED result
    /\ UNCHANGED << host, op, arg, prev, scratch, all_text_boxes, paid_control_value,
                    total_control_value, invoice_num_control_value >>

\* li_click left out: the keys are typed without focusing the control
li_click_skipped ==
    /\ pc = "li_click"
    /\ pc' = "li_send"
    /\ UNCHANGED << host, op, arg, prev, scratch, trace, result, locals >>

\* invoice_num_control.click()?
li_click ==
    /\ pc = "li_click"
    /\ Click(invoice_num_control, "li_send")
    /\ UNCHANGED << op, arg, prev, scratch, locals >>

\* invoice_num_control.send_keys(&format!("{}{{enter}}", invoice_num), SHORT_WAIT_MS)?
li_send ==
    /\ pc = "li_send"
    /\ SendKeys(invoice_num_control, LoadKeys(arg.invoice_num),
                SHORT_WAIT_MS, HostLoadInvoice(arg.invoice_num, SHORT_WAIT_MS),
                AfterLoadInvoice)
    /\ UNCHANGED << op, arg, prev, scratch, locals >>

\* Ok(()) of load_invoice called on its own
li_return ==
    /\ pc = "li_return"
    /\ Finish(Ok(Unit))
    /\ UNCHANGED << host, op, arg, prev, scratch, trace, locals >>

call_load_invoice ==
    \E n \in Invoices :
        Call("load_invoice", "li_find",
             [NoArg EXCEPT !.window = InvScreen, !.invoice_num = n])

load_invoice ==
    call_load_invoice \/ li_find \/ li_click \/ li_send \/ li_return

(***************************************************************************)
(* find_all and property reads                                             *)
(***************************************************************************)
\* .from(scope).classname("ThunderRT6TextBox").find_all(): the matches in
\* tree order; the provider reports "no match at all" as an error
FindAll(scope) ==
    LET m == MatchClass(scope, "ThunderRT6TextBox")
    IN  [ok |-> m # << >>, v |-> m]

FindAllEv(scope, timeout) ==
    Ev("find_all", scope, << "ThunderRT6TextBox" >>, timeout)

\* control.get_property_value(UIProperty::ValueValue)?.get_string()?:
\* an error, or one of the values the host displays in e
ReadOutcomes(e) ==
    { [ok |-> FALSE, v |-> EmptyString] }
    \cup (IF InTree(e) THEN { [ok |-> TRUE, v |-> x] : x \in ValuesOf(e) }
          ELSE { })

(***************************************************************************)
(* send_invoice_to_jdf                                                     *)
(***************************************************************************)
call_send_invoice_to_jdf ==
    \E n \in Invoices :
        Call("send_invoice_to_jdf", "li_find",
             [NoArg EXCEPT !.window = InvScreen, !.invoice_num = n])

\* sij_find_all with a missing paid control taken as an empty paid field
sij_find_all_defaulting ==
    /\ pc = "sij_find_all"
    /\ trace' = Append(trace, FindAllEv(arg.window, WRAPPER_TIMEOUT_MS))
    /\ LET r == FindAll(arg.window) IN
          /\ all_text_boxes' = r.v
          /\ IF ~r.ok THEN Finish(Err("ElementNotFound"))
             ELSE IF Get(r.v, PAID_ORD) = NotFound
             THEN pc' = "sij_macro" /\ UNCHANGED result
             ELSE pc' = "sij_read_paid" /\ UNCHANGED result
    /\ UNCHANGED << host, op, arg, prev, scratch, invoice_num_control, paid_control_value,
                    total_control_value, invoice_num_control_value >>

\* find_all()? and the match on all_text_boxes.get(29)
sij_find_all ==
    /\ pc = "sij_find_all"
    /\ trace' = Append(trace, FindAllEv(arg.window, WRAPPER_TIMEOUT_MS))
    /\ LET r == FindAll(arg.window) IN
          /\ all_text_boxes' = r.v
          /\ IF ~r.ok THEN Finish(Err("ElementNotFound"))
             ELSE IF Get(r.v, PAID_ORD) = NotFound
             THEN Finish(Err("could not find paid control"))
             ELSE pc' = "sij_read_paid" /\ UNCHANGED result
    /\ UNCHANGED << host, op, arg, prev, scratch, invoice_num_control, paid_control_value,
                    total_control_value, invoice_num_control_value >>

\* sij_read_paid without the short-circuit on a non-empty paid field
sij_read_paid_no_shortcut ==
    /\ pc = "sij_read_paid"
    /\ \E r \in ReadOutcomes(Get(all_text_boxes, PAID_ORD)) :
          IF ~r.ok
          THEN /\ Finish(Err("PropertyError"))
               /\ UNCHANGED << trace, paid_control_value >>
          ELSE /\ paid_control_value' = r.v
               /\ trace' = Append(trace, Ev("read",
                                Get(all_text_boxes, PAID_ORD), r.v, 0))
               /\ pc' = "sij_macro"
               /\ UNCHANGED result
    /\ UNCHANGED << host, op, arg, prev, scratch, invoice_num_control, all_text_boxes,
                    total_control_value, invoice_num_control_value >>

\* the read of paid_control and `if paid_control_value != String::new()`
sij_read_paid ==
    /\ pc = "sij_read_paid"
    /\ \E r \in ReadOutcomes(Get(all_text_boxes, PAID_ORD)) :
          IF ~r.ok
          THEN /\ Finish(Err("PropertyError"))
               /\ UNCHANGED << trace, paid_control_value >>
          ELSE /\ paid_control_value' = r.v
               /\ trace' = Append(trace, Ev("read",
                                Get(all_text_boxes, PAID_ORD), r.v, 0))
               /\ IF r.v # EmptyString
                  THEN Finish(Ok(TRUE))
                  ELSE pc' = "sij_macro" /\ UNCHANGED result
    /\ UNCHANGED << host, op, arg, prev, scratch, invoice_num_control, all_text_boxes,
                    total_control_value, invoice_num_control_value >>

ResubmitKeys == << "{F9}", "7", "R" >>
AckKeys == << "{enter}", "{esc}" >>
DiscardKeys == << "{right}", "{enter}" >>

\* sij_macro that dispatches the macro a second time
sij_macro_twice ==
    /\ pc = "sij_macro"
    /\ SendKeys(arg.window, ResubmitKeys, SHORT_WAIT_MS * 3,
                HostResubmit(SHORT_WAIT_MS * 3),
                IF \E i \in 1 .. Len(trace) :
                      trace[i].ev = "send_keys" /\ trace[i].keys = ResubmitKeys
                THEN "sij_wait" ELSE "sij_macro")
    /\ UNCHANGED << op, arg, prev, scratch, locals >>

\* invoices_window.send_keys("{F9}7R", SHORT_WAIT_MS * 3)?
sij_macro ==
    /\ pc = "sij_macro"
    /\ SendKeys(arg.window, ResubmitKeys, SHORT_WAIT_MS * 3,
                HostResubmit(SHORT_WAIT_MS * 3), "sij_wait")
    /\ UNCHANGED << op, arg, prev, scratch, locals >>

\* wait(2000)
sij_wait ==
    /\ pc = "sij_wait"
    /\ Wait(JDF_SETTLE_MS, "sij_find")
    /\ UNCHANGED << op, arg, prev, scratch, locals >>

\* sij_find left out: the handle located by load_invoice is read again
sij_find_reusing_handle ==
    /\ pc = "sij_find"
    /\ pc' = "sij_read"
    /\ UNCHANGED << host, op, arg, prev, scratch, trace, result, locals >>

\* the second find_first()? of the first text box
sij_find ==
    /\ pc = "sij_find"
    /\ LET m == MatchClass(arg.window, "ThunderRT6TextBox")
           found == IF m = << >> THEN NotFound ELSE Head(m)
       IN  /\ trace' = Append(trace, Ev("find_first", found,
                                        << "ThunderRT6TextBox" >>,
                                        WRAPPER_TIMEOUT_MS))
           /\ invoice_num_control' = found
           /\ IF found = NotFound
              THEN Finish(Err("ElementNotFound"))
              ELSE pc' = "sij_read" /\ UNCHANGED result
    /\ UNCHANGED << host, op, arg, prev, scratch, all_text_boxes, paid_control_value,
                    total_control_value, invoice_num_control_value >>

\* sij_read that takes every read-back as "not sent"
sij_read_always_discards ==
    /\ pc = "sij_read"
    /\ \E r \in ReadOutcomes(invoice_num_control) :
          IF ~r.ok
          THEN /\ Finish(Err("PropertyError"))
               /\ UNCHANGED << trace, invoice_num_control_value >>
          ELSE /\ invoice_num_control_value' = r.v
               /\ trace' = Append(trace, Ev("read", invoice_num_control,
                                            r.v, 0))
               /\ pc' = "sij_ack"
               /\ UNCHANGED result
    /\ UNCHANGED << host, op, arg, prev, scratch, invoice_num_control, all_text_boxes,
                    paid_control_value, total_control_value >>

\* the read-back and `if invoice_num.to_string() == invoice_num_control_value`
sij_read ==
    /\ pc = "sij_read"
    /\ \E r \in ReadOutcomes(invoice_num_control) :
          IF ~r.ok
          THEN /\ Finish(Err("PropertyError"))
               /\ UNCHANGED << trace, invoice_num_control_value >>
          ELSE /\ invoice_num_control_value' = r.v
               /\ trace' = Append(trace, Ev("read", invoice_num_control,
                                            r.v, 0))
               /\ IF to_string(arg.invoice_num) = r.v
                  THEN pc' = "sij_ack" /\ UNCHANGED result
                  ELSE Finish(Ok(TRUE))
    /\ UNCHANGED << host, op, arg, prev, scratch, invoice_num_control, all_text_boxes,
                    paid_control_value, total_control_value >>

\* invoices_window.send_keys("{enter}{esc}", SHORT_WAIT_MS * 3)?
sij_ack ==
    /\ pc = "sij_ack"
    /\ SendKeys(arg.window, AckKeys, SHORT_WAIT_MS * 3,
                HostNoChange(SHORT_WAIT_MS * 3), "sij_ctrl_n")
    /\ UNCHANGED << op, arg, prev, scratch, locals >>

\* invoices_window.hold_send_keys("{ctrl}", "n", SHORT_WAIT_MS * 3)?
sij_ctrl_n ==
    /\ pc = "sij_ctrl_n"
    /\ HoldSendKeys(arg.window, "{ctrl}", << "n" >>, SHORT_WAIT_MS * 3,
                    HostNewRecord(SHORT_WAIT_MS * 3), "sij_discard")
    /\ UNCHANGED << op, arg, prev, scratch, locals >>

\* sij_discard that leaves the discard keys out
sij_discard_skipped ==
    /\ pc = "sij_discard"
    /\ pc' = "sij_not_sent"
    /\ UNCHANGED << host, op, arg, prev, scratch, trace, result, locals >>

\* invoices_window.send_keys("{right}{enter}", SHORT_WAIT_MS * 3)?
sij_discard ==
    /\ pc = "sij_discard"
    /\ SendKeys(arg.window, DiscardKeys, SHORT_WAIT_MS * 3,
                HostDiscardKeys(SHORT_WAIT_MS * 3), "sij_not_sent")
    /\ UNCHANGED << op, arg, prev, scratch, locals >>

\* return Ok(false)
sij_not_sent ==
    /\ pc = "sij_not_sent"
    /\ Finish(Ok(FALSE))
    /\ UNCHANGED << host, op, arg, prev, scratch, trace, locals >>

send_invoice_to_jdf ==
    \/ call_send_invoice_to_jdf
    \/ sij_find_all \/ sij_read_paid \/ sij_macro \/ sij_wait \/ sij_find
    \/ sij_read \/ sij_ack \/ sij_ctrl_n \/ sij_discard \/ sij_not_sent

(***************************************************************************)
(* is_invoice_fully_paid                                                   *)
(***************************************************************************)
call_is_invoice_fully_paid ==
    \E n \in Invoices :
        Call("is_invoice_fully_paid", "li_find",
             [NoArg EXCEPT !.window = InvScreen, !.invoice_num = n])

\* find_all()? and the matches on all_text_boxes.get(29) and .get(38)
iifp_find_all ==
    /\ pc = "iifp_find_all"
    /\ trace' = Append(trace, FindAllEv(arg.window, WRAPPER_TIMEOUT_MS))
    /\ LET r == FindAll(arg.window) IN
          /\ all_text_boxes' = r.v
          /\ IF ~r.ok THEN Finish(Err("ElementNotFound"))
             ELSE IF Get(r.v, PAID_ORD) = NotFound
             THEN Finish(Err("could not find paid control"))
             ELSE IF Get(r.v, TOTAL_ORD) = NotFound
             THEN Finish(Err("could not find invoice total control"))
             ELSE pc' = "iifp_read_paid" /\ UNCHANGED result
    /\ UNCHANGED << host, op, arg, prev, scratch, invoice_num_control, paid_control_value,
                    total_control_value, invoice_num_control_value >>

\* let paid_control_value = paid_control.get_property_value(..)?.get_string()?
iifp_read_paid ==
    /\ pc = "iifp_read_paid"
    /\ \E r \in ReadOutcomes(Get(all_text_boxes, PAID_ORD)) :
          IF ~r.ok
          THEN /\ Finish(Err("PropertyError"))
               /\ UNCHANGED << trace, paid_control_value >>
          ELSE /\ paid_control_value' = r.v
               /\ trace' = Append(trace, Ev("read",
                                Get(all_text_boxes, PAID_ORD), r.v, 0))
               /\ pc' = "iifp_read_total"
               /\ UNCHANGED result
    /\ UNCHANGED << host, op, arg, prev, scratch, invoice_num_control, all_text_boxes,
                    total_control_value, invoice_num_control_value >>

RECURSIVE TrimStart(_)
TrimStart(str) == IF str # << >> /\ Head(str) = " " THEN TrimStart(Tail(str))
                  ELSE str

\* fully_paid on the strings with leading blanks removed
fully_paid_trimmed(paid, total) == TrimStart(paid) = TrimStart(total)

\* Ok(paid_control_value == total_control_value)
fully_paid(paid, total) == paid = total

\* the read of total_control and the final expression
iifp_read_total ==
    /\ pc = "iifp_read_total"
    /\ \E r \in ReadOutcomes(Get(all_text_boxes, TOTAL_ORD)) :
          IF ~r.ok
          THEN /\ Finish(Err("PropertyError"))
               /\ UNCHANGED << trace, total_control_value >>
          ELSE /\ total_control_value' = r.v
               /\ trace' = Append(trace, Ev("read",
                                Get(all_text_boxes, TOTAL_ORD), r.v, 0))
               /\ Finish(Ok(fully_paid(paid_control_value, r.v)))
    /\ UNCHANGED << host, op, arg, prev, scratch, invoice_num_control, all_text_boxes,
                    paid_control_value, invoice_num_control_value >>

is_invoice_fully_paid ==
    \/ call_is_invoice_fully_paid
    \/ iifp_find_all \/ iifp_read_paid \/ iifp_read_total

(***************************************************************************)
(* jdf_account_by_customer                                                 *)
(***************************************************************************)
call_jdf_account_by_customer ==
    \E c \in CustomerCodes :
        Call("jdf_account_by_customer", "jac_send",
             [NoArg EXCEPT !.window = CustScreen, !.customer_code = c])

\* customer_screen.send_keys(&format!("{{up}}{}{{enter}}", customer_code), SHORT_WAIT_MS / 4)?
jac_send ==
    /\ pc = "jac_send"
    /\ SendKeys(arg.window,
                << "{up}" >> \o arg.customer_code \o << "{enter}" >>,
                SHORT_WAIT_MS \div 4, HostLoadCustomer(SHORT_WAIT_MS \div 4),
                "jac_find_all")
    /\ UNCHANGED << op, arg, prev, scratch, locals >>

\* find_all()? with timeout SHORT_WAIT_MS and the match on text_boxes.get(28)
jac_find_all ==
    /\ pc = "jac_find_all"
    /\ trace' = Append(trace, FindAllEv(arg.window, SHORT_WAIT_MS))
    /\ LET r == FindAll(arg.window) IN
          /\ all_text_boxes' = r.v
          /\ IF ~r.ok THEN Finish(Err("ElementNotFound"))
             ELSE IF Get(r.v, JDF_ACCOUNT_ORD) = NotFound
             THEN Finish(Ok(EmptyString))
             ELSE pc' = "jac_read" /\ UNCHANGED result
    /\ UNCHANGED << host, op, arg, prev, scratch, invoice_num_control, paid_control_value,
                    total_control_value, invoice_num_control_value >>

\* jdf_account_text_box.get_property_value(..)? and jdf_account_variant.get_string()
jac_read ==
    /\ pc = "jac_read"
    /\ \E r \in ReadOutcomes(Get(all_text_boxes, JDF_ACCOUNT_ORD)) :
          IF ~r.ok
          THEN /\ Finish(Err("PropertyError"))
               /\ UNCHANGED trace
          ELSE /\ trace' = Append(trace, Ev("read",
                                Get(all_text_boxes, JDF_ACCOUNT_ORD), r.v, 0))
               /\ Finish(Ok(r.v))
    /\ UNCHANGED << host, op, arg, prev, scratch, locals >>

jdf_account_by_customer ==
    call_jdf_account_by_customer \/ jac_send \/ jac_find_all \/ jac_read

(***************************************************************************)
(* send_ctrl_n                                                             *)
(***************************************************************************)
call_send_ctrl_n ==
    \E b \in BOOLEAN :
        Call("send_ctrl_n", "scn_ctrl_n",
             [NoArg EXCEPT !.window = Abc, !.save_changes = b])

\* abc_window.hold_send_keys("{Ctrl}", "N", SHORT_WAIT_MS)?
scn_ctrl_n ==
    /\ pc = "scn_ctrl_n"
    /\ HoldSendKeys(arg.window, "{Ctrl}", << "N" >>, SHORT_WAIT_MS,
                    HostNewRecord(SHORT_WAIT_MS), "scn_wait")
    /\ UNCHANGED << op, arg, prev, scratch, locals >>

\* wait(SHORT_WAIT_MS)
scn_wait ==
    /\ pc = "scn_wait"
    /\ Wait(SHORT_WAIT_MS, "scn_find")
    /\ UNCHANGED << op, arg, prev, scratch, locals >>

SaveKeys == << "{enter}" >>

\* scn_find that answers whether or not the dialog was found
scn_find_answering_blind ==
    /\ pc = "scn_find"
    /\ LET found == FindFirstNamed(Root, SaveChangesName)
       IN  /\ trace' = Append(trace, Ev("find_first", found, SaveChangesName,
                                        SHORT_WAIT_MS \div 2))
           /\ popup' = IF found = NotFound THEN arg.window ELSE found
           /\ pc' = IF arg.save_changes THEN "scn_save" ELSE "scn_discard"
    /\ UNCHANGED << host, op, arg, prev, customer_code_control, result,
                    locals >>

\* the find_first() by name from the root with timeout SHORT_WAIT_MS / 2
\* and the match (save_changes_popup_result, save_changes): the locate
\* returns at once when the dialog is showing, when the dialog shows within
\* the timeout, and else after the timeout
scn_find ==
    /\ pc = "scn_find"
    /\ LET timeout == SHORT_WAIT_MS \div 2
           now == FindFirstNamed(Root, SaveChangesName)
           shows == now = NotFound /\ due > 0 /\ due <= timeout
           found == IF shows THEN Popup ELSE now
           took == IF shows THEN due
                   ELSE IF now = NotFound THEN timeout ELSE 0
       IN  /\ trace' = Append(trace, Ev("find_first", found, SaveChangesName,
                                        timeout))
           /\ popup' = found
           /\ pc' = IF found = NotFound THEN "scn_return"
                    ELSE IF arg.save_changes THEN "scn_save"
                    ELSE "scn_discard"
           /\ UNCHANGED << layout, invOpen, custOpen, cur, sent >>
           /\ Pending(took)
           /\ Settle(took)
    /\ UNCHANGED << op, arg, prev, customer_code_control, result, locals >>

\* (Ok(popup), true) => popup.send_keys("{enter}", SHORT_WAIT_MS)?
scn_save ==
    /\ pc = "scn_save"
    /\ SendKeys(popup, SaveKeys, SHORT_WAIT_MS, HostAnswer(SHORT_WAIT_MS),
                "scn_return")
    /\ UNCHANGED << op, arg, prev, scratch, locals >>

\* scn_discard that types the answer at the Client4 window
scn_discard_to_window ==
    /\ pc = "scn_discard"
    /\ SendKeys(arg.window, DiscardKeys, SHORT_WAIT_MS,
                HostDiscardKeys(SHORT_WAIT_MS), "scn_return")
    /\ UNCHANGED << op, arg, prev, scratch, locals >>

\* (Ok(popup), false) => popup.send_keys("{right}{enter}", SHORT_WAIT_MS)?
scn_discard ==
    /\ pc = "scn_discard"
    /\ SendKeys(popup, DiscardKeys, SHORT_WAIT_MS, HostAnswer(SHORT_WAIT_MS),
                "scn_return")
    /\ UNCHANGED << op, arg, prev, scratch, locals >>

\* scn_return that goes back to the wait until the dialog has been found
scn_return_retrying ==
    /\ pc = "scn_return"
    /\ IF popup = NotFound
       THEN /\ pc' = "scn_wait"
            /\ trace' = SubSeq(trace, 1, 1)
            /\ UNCHANGED result
       ELSE /\ Finish(Ok(Unit))
            /\ UNCHANGED trace
    /\ UNCHANGED << host, op, arg, prev, scratch, locals >>

\* Ok(())
scn_return ==
    /\ pc = "scn_return"
    /\ Finish(Ok(Unit))
    /\ UNCHANGED << host, op, arg, prev, scratch, trace, locals >>

send_ctrl_n ==
    \/ call_send_ctrl_n
    \/ scn_ctrl_n \/ scn_wait \/ scn_find \/ scn_save \/ scn_discard
    \/ scn_return

(***************************************************************************)
(* load_customer_record                                                    *)
(***************************************************************************)
call_load_customer_record ==
    \E c \in CustomerCodes :
        Call("load_customer_record", "lcr_find",
             [NoArg EXCEPT !.window = CustScreen, !.customer_code = c])

\* create_matcher_wrapper(..).classname(..).from(customer_screen).find_first()?
lcr_find ==
    /\ pc = "lcr_find"
    /\ LET m == MatchClass(arg.window, "ThunderRT6TextBox")
           found == IF m = << >> THEN NotFound ELSE Head(m)
       IN  /\ trace' = Append(trace, Ev("find_first", found,
                                        << "ThunderRT6TextBox" >>,
                                        WRAPPER_TIMEOUT_MS))
           /\ customer_code_control' = found
           /\ IF found = NotFound
              THEN Finish(Err("ElementNotFound"))
              ELSE pc' = "lcr_click" /\ UNCHANGED result
    /\ UNCHANGED << host, op, arg, prev, popup, locals >>

\* customer_code_control.click()?
lcr_click ==
    /\ pc = "lcr_click"
    /\ Click(customer_code_control, "lcr_send")
    /\ UNCHANGED << op, arg, prev, scratch, locals >>

\* customer_code_control.send_keys(&format!("{}{{enter}}", customer_code), SHORT_WAIT_MS)?
lcr_send ==
    /\ pc = "lcr_send"
    /\ SendKeys(customer_code_control, arg.customer_code \o << "{enter}" >>,
                SHORT_WAIT_MS, HostLoadCustomer(SHORT_WAIT_MS), "lcr_return")
    /\ UNCHANGED << op, arg, prev, scratch, locals >>

\* Ok(())
lcr_return ==
    /\ pc = "lcr_return"
    /\ Finish(Ok(Unit))
    /\ UNCHANGED << host, op, arg, prev, scratch, trace, locals >>

load_customer_record ==
    call_load_customer_record \/ lcr_find \/ lcr_click \/ lcr_send
    \/ lcr_return

(***************************************************************************)
(* Report generators (reports.rs)                                          *)
(***************************************************************************)
\* the (starting, ending) pairs the callers pass, as strings
SkuRanges == { [starting |-> << "A", "1" >>, ending |-> << "Z", "9" >>] }
BillRanges == { [starting |-> to_string(FirstInvoice),
                 ending |-> to_string(FirstInvoice + MaxInvoice - 1)] }

\* format!("{{enter}}{}{{enter}}{}{{enter}}t", starting, ending)
RangeKeys(starting, ending) ==
    << "{enter}" >> \o starting \o << "{enter}" >> \o ending
        \o << "{enter}", "t" >>

\* one send_keys(keys, interval)? of a report generator
ReportSend(keys, interval, next) ==
    /\ SendKeys(arg.window, keys, interval, HostNoChange(interval), next)
    /\ UNCHANGED << op, arg, prev, scratch, locals >>

\* ReportWait that goes on without sleeping
ReportWaitSkipped(next) ==
    /\ pc' = next
    /\ UNCHANGED << host, op, arg, prev, scratch, trace, result, locals >>

\* one wait(SHORT_WAIT_MS * 5) of a report generator
ReportWait(next) ==
    /\ Wait(SHORT_WAIT_MS * 5, next)
    /\ UNCHANGED << op, arg, prev, scratch, locals >>

\* Ok(()) of a report generator
ReportReturn ==
    /\ Finish(Ok(Unit))
    /\ UNCHANGED << host, op, arg, prev, scratch, trace, locals >>

call_generate_report_11 ==
    \E r \in SkuRanges :
        Call("generate_report_11", "r11_menu",
             [NoArg EXCEPT !.window = Abc, !.starting = r.starting,
                           !.ending = r.ending])

\* abc_window.send_keys("{F10}1", SHORT_WAIT_MS * 3)?
r11_menu ==
    /\ pc = "r11_menu"
    /\ ReportSend(<< "{F10}", "1" >>, SHORT_WAIT_MS * 3, "r11_wait1")

r11_wait1 == pc = "r11_wait1" /\ ReportWait("r11_report")

\* abc_window.send_keys("1{enter}", SHORT_WAIT_MS / 2)?
r11_report ==
    /\ pc = "r11_report"
    /\ ReportSend(<< "1", "{enter}" >>, SHORT_WAIT_MS \div 2, "r11_wait2")

r11_wait2 == pc = "r11_wait2" /\ ReportWait("r11_inventory")

\* abc_window.send_keys("I", SHORT_WAIT_MS / 2)?
r11_inventory ==
    /\ pc = "r11_inventory"
    /\ ReportSend(<< "I" >>, SHORT_WAIT_MS \div 2, "r11_wait3")

r11_wait3 == pc = "r11_wait3" /\ ReportWait("r11_range")

\* abc_window.send_keys(&format!(..starting_sku, ending_sku), SHORT_WAIT_MS / 2)?
r11_range ==
    /\ pc = "r11_range"
    /\ ReportSend(RangeKeys(arg.starting, arg.ending), SHORT_WAIT_MS \div 2,
                  "r11_return")

r11_return == pc = "r11_return" /\ ReportReturn

generate_report_11 ==
    \/ call_generate_report_11
    \/ r11_menu \/ r11_wait1 \/ r11_report \/ r11_wait2 \/ r11_inventory
    \/ r11_wait3 \/ r11_range \/ r11_return

call_generate_report_214 ==
    \E r \in BillRanges :
        Call("generate_report_214", "r214_menu",
             [NoArg EXCEPT !.window = Abc, !.starting = r.starting,
                           !.ending = r.ending])

\* abc_window.send_keys("{F10}2", SHORT_WAIT_MS * 3)?
r214_menu ==
    /\ pc = "r214_menu"
    /\ ReportSend(<< "{F10}", "2" >>, SHORT_WAIT_MS * 3, "r214_wait1")

r214_wait1 == pc = "r214_wait1" /\ ReportWait("r214_report")

\* abc_window.send_keys("14{enter}", SHORT_WAIT_MS / 2)?
r214_report ==
    /\ pc = "r214_report"
    /\ ReportSend(<< "1", "4", "{enter}" >>, SHORT_WAIT_MS \div 2,
                  "r214_wait2")

r214_wait2 == pc = "r214_wait2" /\ ReportWait("r214_range")

\* abc_window.send_keys(&format!(..starting_bill, ending_bill), SHORT_WAIT_MS / 2)?
r214_range ==
    /\ pc = "r214_range"
    /\ ReportSend(RangeKeys(arg.starting, arg.ending), SHORT_WAIT_MS \div 2,
                  "r214_return")

r214_return == pc = "r214_return" /\ ReportReturn

generate_report_214 ==
    \/ call_generate_report_214
    \/ r214_menu \/ r214_wait1 \/ r214_report \/ r214_wait2 \/ r214_range
    \/ r214_return

(***************************************************************************)
(* generate_report_323 and generate_simple_report (reports.rs)             *)
(***************************************************************************)
call_generate_report_323 ==
    \E r \in BillRanges :
        Call("generate_report_323", "r323_menu",
             [NoArg EXCEPT !.window = Abc, !.starting = r.starting,
                           !.ending = r.ending])

\* abc_window.send_keys("{F10}3", SHORT_WAIT_MS * 3)?
r323_menu ==
    /\ pc = "r323_menu"
    /\ ReportSend(<< "{F10}", "3" >>, SHORT_WAIT_MS * 3, "r323_wait1")

r323_wait1 == pc = "r323_wait1" /\ ReportWait("r323_report")

\* abc_window.send_keys("23{enter}", SHORT_WAIT_MS / 2)?
r323_report ==
    /\ pc = "r323_report"
    /\ ReportSend(<< "2", "3", "{enter}" >>, SHORT_WAIT_MS \div 2,
                  "r323_wait2")

r323_wait2 == pc = "r323_wait2" /\ ReportWait("r323_range")

\* abc_window.send_keys(&format!(..starting_invoice, ending_invoice), SHORT_WAIT_MS / 2)?
r323_range ==
    /\ pc = "r323_range"
    /\ ReportSend(RangeKeys(arg.starting, arg.ending), SHORT_WAIT_MS \div 2,
                  "r323_return")

r323_return == pc = "r323_return" /\ ReportReturn

generate_report_323 ==
    \/ call_generate_report_323
    \/ r323_menu \/ r323_wait1 \/ r323_report \/ r323_wait2 \/ r323_range
    \/ r323_return

\* the (menu, report) pairs generate_simple_report is called with
SimpleReports ==
    { [menu |-> << "2" >>, report |-> << "1", "4" >>],
      [menu |-> << "3" >>, report |-> << "2", "3" >>] }

\* what the name `report_number` can stand for in the body of
\* generate_simple_report: it is no parameter and no local of the function,
\* so its value does not follow the argument `report`
ReportNumbers == { r.report : r \in SimpleReports }

call_generate_simple_report ==
    \E m \in SimpleReports : \E r \in BillRanges :
        Call("generate_simple_report", "gsr_menu",
             [NoArg EXCEPT !.window = Abc, !.menu = m.menu,
                           !.report = m.report, !.starting = r.starting,
                           !.ending = r.ending])

\* abc_window.send_keys(&format!("{{F10}}{}", menu), SHORT_WAIT_MS * 3)?
gsr_menu ==
    /\ pc = "gsr_menu"
    /\ ReportSend(<< "{F10}" >> \o arg.menu, SHORT_WAIT_MS * 3, "gsr_wait1")

gsr_wait1 == pc = "gsr_wait1" /\ ReportWait("gsr_report")

\* abc_window.send_keys(&format!("{}{{enter}}", report_number), SHORT_WAIT_MS / 2)?
gsr_report ==
    /\ pc = "gsr_report"
    /\ \E report_number \in ReportNumbers :
          ReportSend(report_number \o << "{enter}" >>, SHORT_WAIT_MS \div 2,
                     "gsr_wait2")

gsr_wait2 == pc = "gsr_wait2" /\ ReportWait("gsr_range")

\* abc_window.send_keys(&format!(..starting_at, ending_with), SHORT_WAIT_MS / 2)?
gsr_range ==
    /\ pc = "gsr_range"
    /\ ReportSend(RangeKeys(arg.starting, arg.ending), SHORT_WAIT_MS \div 2,
                  "gsr_return")

gsr_return == pc = "gsr_return" /\ ReportReturn

generate_simple_report ==
    \/ call_generate_simple_report
    \/ gsr_menu \/ gsr_wait1 \/ gsr_report \/ gsr_wait2 \/ gsr_range
    \/ gsr_return

Next ==
    \/ load_invoices_screen
    \/ load_customer_screen
    \/ load_invoice
    \/ send_invoice_to_jdf
    \/ is_invoice_fully_paid
    \/ jdf_account_by_customer
    \/ send_ctrl_n
    \/ load_customer_record
    \/ generate_report_11
    \/ generate_report_214
    \/ Return

Spec == Init /\ [][Next]_vars

\* the same functions against a host that redraws asynchronously
SpecAsync == InitAsync /\ [][Next]_vars

\* the report generators of reports.rs
NextReports ==
    \/ generate_simple_report
    \/ generate_report_214
    \/ generate_report_323
    \/ Return

SpecReports == InitAsync /\ [][NextReports]_vars

\* is_invoice_fully_paid and send_invoice_to_jdf called one after the other
\* on an open invoices screen with all its text boxes
NextPair ==
    \/ load_invoice
    \/ is_invoice_fully_paid
    \/ send_invoice_to_jdf
    \/ ReturnKeeping

InitPair ==
    /\ Init
    /\ tops = << Abc >>
    /\ invOpen = TRUE
    /\ custOpen = FALSE
    /\ invLen = TOTAL_ORD + 1
    /\ custLen = JDF_ACCOUNT_ORD + 1

SpecPair == InitPair /\ [][NextPair]_vars

\* the functions that work on the invoices screen, run by a thread that is
\* scheduled: a call that can take its next step takes it (every step is a
\* bounded provider call or sleep)
NextLive ==
    \/ load_invoices_screen
    \/ load_invoice
    \/ send_invoice_to_jdf
    \/ is_invoice_fully_paid
    \/ send_ctrl_n
    \/ Return

\* the fastest and the slowest of the hosts
LiveLatencies == { 20, 300 }

InitLive ==
    /\ InitAsync
    /\ latency \in LiveLatencies
    /\ custOpen = FALSE

SpecLive == InitLive /\ [][NextLive]_vars /\ WF_vars(NextLive)

(***************************************************************************)
(* Vocabulary of the properties                                            *)
(***************************************************************************)
TitleOf(f) == IF f = "load_invoices_screen" THEN InvoicesTitle
              ELSE CustomersTitle
MacroOf(f) == IF f = "load_invoices_screen" THEN << "{F10}", "R" >>
              ELSE << "{F10}", "C" >>

IsKeystroke(e) == e.ev \in { "send_keys", "hold_send_keys" }
IsInput(e) == e.ev \in { "send_keys", "hold_send_keys", "click" }
\* the keystroke dispatches of a trace, in order
Keystrokes(tr) == SelectSeq(tr, IsKeystroke)
\* the keystroke dispatches and clicks of a trace, in order
Inputs(tr) == SelectSeq(tr, IsInput)
HasEv(kind) == \E i \in 1 .. Len(trace) : trace[i].ev = kind

\* the inputs of load_invoice(w, n)
LoadInputs(w, n) ==
    << Ev("click", TextBox(w, 0), << >>, 0),
       Ev("send_keys", TextBox(w, 0), LoadKeys(n), SHORT_WAIT_MS) >>

ResubmitEv(w) == Ev("send_keys", w, ResubmitKeys, SHORT_WAIT_MS * 3)
\* the keystrokes of the not-sent branch
NotSentSeq(w) ==
    << Ev("send_keys", w, AckKeys, SHORT_WAIT_MS * 3),
       Ev("hold_send_keys", w, << "{ctrl}", "n" >>, SHORT_WAIT_MS * 3),
       Ev("send_keys", w, DiscardKeys, SHORT_WAIT_MS * 3) >>

\* positions of the trace where the value of element e was read
ReadsOf(e) == { i \in 1 .. Len(trace) :
                  trace[i].ev = "read" /\ trace[i].target = e }
\* the paid field was read in this call and displayed v
PaidRead(v) == \E i \in ReadsOf(TextBox(InvScreen, PAID_ORD)) :
                  trace[i].keys = v
TotalRead(v) == \E i \in ReadsOf(TextBox(InvScreen, TOTAL_ORD)) :
                  trace[i].keys = v
\* position of the read-back of the first text box (0 if not yet read)
ReadBackAt == IF ReadsOf(TextBox(InvScreen, 0)) = { } THEN 0
              ELSE CHOOSE i \in ReadsOf(TextBox(InvScreen, 0)) : TRUE
IsPrefix(a, b) == Len(a) <= Len(b) /\ SubSeq(b, 1, Len(a)) = a

ResultOk == result.tag = "Ok"
ResultErr == result.tag = "Err"
ResultErrIs(m) == result.tag = "Err" /\ result.val = m
\* the Ok value of a function returning Result<bool>
ResultBool(b) == result.tag = "Ok" /\ result.val = b

(***************************************************************************)
(* Properties                                                              *)
(***************************************************************************)

\* C1: jdf_account_by_customer on a customer screen with 28 or fewer
\* ThunderRT6TextBox controls (ordinal 28 absent) ends with an error; it
\* never returns a value for the missing field.
C1_AbsentAccountOrdinalFails ==
    (op = "jdf_account_by_customer" /\ pc = "done"
        /\ custLen <= JDF_ACCOUNT_ORD)
    => ResultErr

\* C2: once send_invoice_to_jdf has collected the text boxes of a screen
\* without ordinal 29, or is_invoice_fully_paid those of a screen without
\* ordinal 29 or 38, the call is over with Err and the only inputs it has
\* dispatched are those of the load step (no {F9}7R, nothing else).
C2_FieldAbsenceFatal ==
    (HasEv("find_all")
        /\ \/ op = "send_invoice_to_jdf" /\ invLen <= PAID_ORD
           \/ op = "is_invoice_fully_paid" /\ invLen <= TOTAL_ORD)
    => /\ pc = "done"
       /\ ResultErr
       /\ Inputs(trace) = LoadInputs(arg.window, arg.invoice_num)

C2_Witness ==
    /\ op = "send_invoice_to_jdf"
    /\ pc = "done"
    /\ invLen = PAID_ORD
    /\ HasEv("find_all")
    /\ ResultErrIs("could not find paid control")

\* C3: when is_invoice_fully_paid returns Ok(b), b is true exactly if the
\* string read at ordinal 29 and the string read at ordinal 38 are the same
\* sequence of characters; any difference (blanks, case, number format)
\* gives Ok(false).
C3_FullyPaidIffEqualStrings ==
    (op = "is_invoice_fully_paid" /\ pc = "done" /\ ResultOk)
    => \E p \in AmountStrings, t \in AmountStrings :
          /\ PaidRead(p)
          /\ TotalRead(t)
          /\ result.val = (p = t)

C3_Witness ==
    /\ op = "is_invoice_fully_paid"
    /\ pc = "done"
    /\ PaidRead(<< "1", "5", "0", ".", "0", "0" >>)
    /\ TotalRead(<< " ", "1", "5", "0", ".", "0", "0" >>)
    /\ ResultBool(FALSE)

\* C4: in send_invoice_to_jdf, once the paid field has been read as a
\* non-empty string the call is over with Ok(true), and the inputs it has
\* dispatched are those of the load step only.
C4_PaidShortCircuit ==
    (op = "send_invoice_to_jdf"
        /\ \E v \in AmountStrings \ { EmptyString } : PaidRead(v))
    => /\ pc = "done"
       /\ ResultBool(TRUE)
       /\ Inputs(trace) = LoadInputs(arg.window, arg.invoice_num)

C4_Witness ==
    /\ op = "send_invoice_to_jdf"
    /\ pc = "done"
    /\ PaidRead(<< "1", "5", "0", ".", "0", "0" >>)
    /\ ResultBool(TRUE)

\* C5: in send_invoice_to_jdf, once the paid field was read empty and the
\* read-back after the resubmission macro and the settle wait differs from
\* the decimal rendering of invoice_num, the call is over with Ok(true) and
\* the keystrokes it has dispatched are the load keys and the macro only.
C5_AcceptedPath ==
    (op = "send_invoice_to_jdf" /\ ReadBackAt # 0
        /\ trace[ReadBackAt].keys # to_string(arg.invoice_num))
    => /\ PaidRead(EmptyString)
       /\ ReadBackAt > 3
       /\ trace[ReadBackAt - 3] = ResubmitEv(arg.window)
       /\ trace[ReadBackAt - 2] = Ev("wait", NotFound, << >>, JDF_SETTLE_MS)
       /\ trace[ReadBackAt - 1].ev = "find_first"
       /\ trace[ReadBackAt - 1].target = trace[ReadBackAt].target
       /\ pc = "done"
       /\ ResultBool(TRUE)
       /\ Inputs(trace) = LoadInputs(arg.window, arg.invoice_num)
                            \o << ResubmitEv(arg.window) >>
       /\ ReadBackAt = Len(trace)

C5_Witness ==
    /\ op = "send_invoice_to_jdf"
    /\ pc = "done"
    /\ arg.invoice_num = FirstInvoice
    /\ ReadBackAt # 0
    /\ trace[ReadBackAt].keys = to_string(FirstInvoice + 1)
    /\ ResultBool(TRUE)

\* C6: in send_invoice_to_jdf, once the read-back equals the decimal
\* rendering of invoice_num, what is dispatched after it is, in this order,
\* {enter}{esc}, Ctrl+N, {right}{enter}; the call returns Ok(false) after
\* all three and never Ok(true).  (A dispatch that fails ends the call with
\* that error before the later ones.)  Ok(false) is returned on no other
\* path.
C6_NotSentPath ==
    /\ (op = "send_invoice_to_jdf" /\ ReadBackAt # 0
          /\ trace[ReadBackAt].keys = to_string(arg.invoice_num))
       => LET after == SubSeq(trace, ReadBackAt + 1, Len(trace))
          IN  /\ IsPrefix(after, NotSentSeq(arg.window))
              /\ pc = "done" =>
                   \/ ResultBool(FALSE) /\ after = NotSentSeq(arg.window)
                   \/ /\ ResultErrIs("InjectionFailed")
                      /\ Len(after) < Len(NotSentSeq(arg.window))
    /\ (op = "send_invoice_to_jdf" /\ ResultBool(FALSE))
       => /\ ReadBackAt # 0
          /\ trace[ReadBackAt].keys = to_string(arg.invoice_num)
          /\ SubSeq(trace, ReadBackAt + 1, Len(trace))
                = NotSentSeq(arg.window)

C6_Witness ==
    /\ op = "send_invoice_to_jdf"
    /\ pc = "done"
    /\ ReadBackAt # 0
    /\ trace[ReadBackAt].keys = to_string(arg.invoice_num)
    /\ SubSeq(trace, ReadBackAt + 1, Len(trace)) = NotSentSeq(arg.window)
    /\ ResultBool(FALSE)

\* C7: when send_invoice_to_jdf returns Ok(b), b is true exactly if invoice
\* invoice_num has been sent to JDF (payment posted before the call or
\* resubmission accepted by the host during it).
C7_ResultMeansSent ==
    (op = "send_invoice_to_jdf" /\ pc = "done" /\ ResultOk)
    => (result.val = (arg.invoice_num \in sent))

\* C8: a step of load_invoices_screen / load_customer_screen that starts
\* the function while an element whose name contains the screen title is in
\* the tree ends the call with Ok(that element), dispatches no keystroke
\* and leaves the host as it is.
C8_AlreadyOpenNoKeys ==
    [][ (op \in ScreenOps /\ pc \in { "lis_find", "lcs_find" }
            /\ FindFirstByName(Root, TitleOf(op)) # NotFound)
        => /\ pc' = "done"
           /\ result' = Ok(FindFirstByName(Root, TitleOf(op)))
           /\ Contains(NameOf(result'.val), TitleOf(op))
           /\ Keystrokes(trace') = << >>
           /\ UNCHANGED host ]_vars

C8_Witness ==
    /\ op = "load_invoices_screen"
    /\ pc = "done"
    /\ invOpen
    /\ ResultOk
    /\ result.val = InvScreen
    /\ Inputs(trace) = << >>

\* C9: a call of load_invoices_screen / load_customer_screen whose first
\* locate failed has sent the opening macro to the host window at most once
\* (once unless its dispatch failed) and nothing else; it returns Ok only
\* with the element its second locate found in the tree after the macro, and
\* Err(not found) when that locate found none.
C9_CheckActConfirm ==
    (op \in ScreenOps /\ pc = "done" /\ Len(trace) >= 1
        /\ trace[1].target = NotFound)
    => LET macro == Ev("send_keys", arg.window, MacroOf(op),
                       SHORT_WAIT_MS * 3)
       IN  \/ /\ trace = << trace[1] >>
              /\ ResultErrIs("InjectionFailed")
           \/ /\ Len(trace) = 3
              /\ trace[2] = macro
              /\ trace[3].ev = "find_first"
              /\ trace[3].target = FindFirstByName(Root, TitleOf(op))
              /\ IF trace[3].target = NotFound
                 THEN ResultErrIs("ElementNotFound")
                 ELSE /\ ResultOk
                      /\ result.val = trace[3].target
                      /\ InTree(result.val)
                      /\ Contains(NameOf(result.val), TitleOf(op))

C9_Witness ==
    /\ op = "load_customer_screen"
    /\ pc = "done"
    /\ Len(trace) = 3
    /\ trace[1].target = NotFound
    /\ trace[2].keys = << "{F10}", "C" >>
    /\ ResultOk
    /\ result.val = CustScreen

\* C10: the element load_invoices_screen(abc_window) / load_customer_screen
\* returns lies in the subtree of abc_window.
C10_ReturnedScreenInsideClient4 ==
    (op \in ScreenOps /\ pc = "done" /\ ResultOk)
    => InSubtree(result.val, arg.window)

\* the Ctrl+N combination of send_ctrl_n(w, _)
CtrlNEv(w) == Ev("hold_send_keys", w, << "{Ctrl}", "N" >>, SHORT_WAIT_MS)
\* position of the locate of the dialog in send_ctrl_n (0 if not yet done)
DialogLocateAt ==
    IF \E i \in 1 .. Len(trace) : trace[i].ev = "find_first"
    THEN CHOOSE i \in 1 .. Len(trace) : trace[i].ev = "find_first"
    ELSE 0

\* C11: once send_ctrl_n has looked for the "Save changes before
\* proceeding?" dialog after Ctrl+N and not found it, the only keystroke
\* dispatch of the call is the Ctrl+N combination and the call ends with
\* Ok(()), whatever save_changes is.
C11_NoDialogNoKeys ==
    (op = "send_ctrl_n" /\ DialogLocateAt # 0
        /\ trace[DialogLocateAt].target = NotFound)
    => /\ Inputs(trace) = << CtrlNEv(arg.window) >>
       /\ pc \in { "scn_return", "done" }
       /\ pc = "done" => (ResultOk /\ result.val = Unit)

C11_Witness ==
    /\ op = "send_ctrl_n"
    /\ pc = "done"
    /\ ~arg.save_changes
    /\ DialogLocateAt # 0
    /\ trace[DialogLocateAt].target = NotFound
    /\ ResultOk

\* C12: once send_ctrl_n has found the dialog after Ctrl+N, what it
\* dispatches after the locate is one answer, sent to the dialog element:
\* {enter} if save_changes, {right}{enter} if not, never the other one; the
\* call returns Ok(()) after it (or the error of a failed dispatch, with no
\* answer sent).
C12_OneAnswerToDialog ==
    (op = "send_ctrl_n" /\ DialogLocateAt # 0
        /\ trace[DialogLocateAt].target # NotFound)
    => LET d == trace[DialogLocateAt].target
           answer == Ev("send_keys", d,
                        IF arg.save_changes THEN SaveKeys ELSE DiscardKeys,
                        SHORT_WAIT_MS)
           after == SubSeq(trace, DialogLocateAt + 1, Len(trace))
       IN  /\ d = Popup
           /\ NameOf(d) = SaveChangesName
           /\ IsPrefix(after, << answer >>)
           /\ Inputs(trace) = << CtrlNEv(arg.window) >> \o after
           /\ pc = "done" =>
                \/ after = << answer >> /\ ResultOk /\ result.val = Unit
                \/ after = << >> /\ ResultErrIs("InjectionFailed")

C12_Witness ==
    /\ op = "send_ctrl_n"
    /\ pc = "done"
    /\ ~arg.save_changes
    /\ Len(trace) = 4
    /\ trace[3].target = Popup
    /\ trace[4] = Ev("send_keys", Popup, DiscardKeys, SHORT_WAIT_MS)
    /\ ~dialog
    /\ ResultOk

\* the keystroke dispatches of a report generator, in the written order
ReportInputs(f, w, starting, ending) ==
    IF f = "generate_report_11"
    THEN << Ev("send_keys", w, << "{F10}", "1" >>, SHORT_WAIT_MS * 3),
            Ev("send_keys", w, << "1", "{enter}" >>, SHORT_WAIT_MS \div 2),
            Ev("send_keys", w, << "I" >>, SHORT_WAIT_MS \div 2),
            Ev("send_keys", w, RangeKeys(starting, ending),
               SHORT_WAIT_MS \div 2) >>
    ELSE << Ev("send_keys", w, << "{F10}", "2" >>, SHORT_WAIT_MS * 3),
            Ev("send_keys", w, << "1", "4", "{enter}" >>,
               SHORT_WAIT_MS \div 2),
            Ev("send_keys", w, RangeKeys(starting, ending),
               SHORT_WAIT_MS \div 2) >>

ReportOps == { "generate_report_11", "generate_report_214" }
\* the multi-step operations
MultiStepOps ==
    ReportOps \cup ScreenOps
    \cup { "load_invoice", "load_customer_record", "send_invoice_to_jdf",
           "send_ctrl_n" }

\* the inputs of load_customer_record(w, c)
LoadCustomerInputs(w, c) ==
    << Ev("click", TextBox(w, 0), << >>, 0),
       Ev("send_keys", TextBox(w, 0), c \o << "{enter}" >>, SHORT_WAIT_MS) >>

\* all the inputs the running operation is written to dispatch, in order
WrittenInputs ==
    CASE op \in ReportOps ->
            ReportInputs(op, arg.window, arg.starting, arg.ending)
      [] op \in ScreenOps ->
            << Ev("send_keys", arg.window, MacroOf(op), SHORT_WAIT_MS * 3) >>
      [] op = "load_invoice" -> LoadInputs(arg.window, arg.invoice_num)
      [] op = "load_customer_record" ->
            LoadCustomerInputs(arg.window, arg.customer_code)
      [] op = "send_invoice_to_jdf" ->
            LoadInputs(arg.window, arg.invoice_num)
              \o << ResubmitEv(arg.window) >> \o NotSentSeq(arg.window)
      [] op = "send_ctrl_n" ->
            << CtrlNEv(arg.window),
               Ev("send_keys", Popup,
                  IF arg.save_changes THEN SaveKeys ELSE DiscardKeys,
                  SHORT_WAIT_MS) >>
      [] OTHER -> << >>

\* C13: in the multi-step operations (report generators, load_invoice,
\* load_customer_record, send_invoice_to_jdf, send_ctrl_n, load_*_screen)
\* an error ends the call at once, and a call that ended with an injection
\* error has dispatched the steps before the failing one, in the written
\* order, and nothing else: no later step and no keystroke that undoes the
\* earlier ones.
C13_InjectionFailureAborts ==
    op \in MultiStepOps
    => /\ ResultErr => pc = "done"
       /\ IsPrefix(Inputs(trace), WrittenInputs)
       /\ ResultErrIs("InjectionFailed")
            => Len(Inputs(trace)) < Len(WrittenInputs)

C13_Witness ==
    /\ op = "generate_report_214"
    /\ pc = "done"
    /\ ResultErrIs("InjectionFailed")
    /\ Len(Inputs(trace)) = 2

\* the operations that begin with the load step
LoadOps == { "load_invoice", "load_customer_record", "send_invoice_to_jdf",
             "is_invoice_fully_paid" }

\* C14: load_invoice (alone or as the first step of send_invoice_to_jdf and
\* is_invoice_fully_paid) and load_customer_record first locate the first
\* ThunderRT6TextBox of the screen; if there is none the call fails having
\* dispatched no click and no keystroke; otherwise the next two events are
\* the click on that control and then the number (code) followed by {enter}
\* sent to the same control.
C14_LoadStep ==
    (op \in LoadOps /\ Len(trace) >= 1)
    => LET c == trace[1].target
           none == IF arg.window = InvScreen THEN ~invOpen \/ invLen = 0
                   ELSE ~custOpen \/ custLen = 0
           keys == IF op = "load_customer_record"
                   THEN arg.customer_code \o << "{enter}" >>
                   ELSE LoadKeys(arg.invoice_num)
           written == << Ev("click", c, << >>, 0),
                         Ev("send_keys", c, keys, SHORT_WAIT_MS) >>
       IN  /\ trace[1].ev = "find_first"
           /\ c = (IF none THEN NotFound ELSE TextBox(arg.window, 0))
           /\ IF c = NotFound
              THEN /\ pc = "done"
                   /\ ResultErrIs("ElementNotFound")
                   /\ trace = << trace[1] >>
              ELSE /\ IF Len(trace) <= 3
                      THEN IsPrefix(Tail(trace), written)
                      ELSE SubSeq(trace, 2, 3) = written
                   /\ (pc = "done" /\ ResultOk) => Len(trace) >= 3

C14_Witness ==
    /\ op = "load_invoice"
    /\ pc = "done"
    /\ ResultOk
    /\ trace[1].target = TextBox(InvScreen, 0)
    /\ trace[2] = Ev("click", TextBox(InvScreen, 0), << >>, 0)
    /\ trace[3] = Ev("send_keys", TextBox(InvScreen, 0),
                     LoadKeys(arg.invoice_num), SHORT_WAIT_MS)

\* positions of the functions right before a field read that follows the
\* load keystrokes
FieldReadPcs == { "sij_read_paid", "iifp_read_paid", "iifp_read_total",
                  "jac_read" }
\* the settle delay of the keystrokes that load the record: the interval of
\* their send_keys
LoadSettleMs == IF op = "jdf_account_by_customer" THEN SHORT_WAIT_MS \div 4
                ELSE SHORT_WAIT_MS

\* C15: when send_invoice_to_jdf / is_invoice_fully_paid is about to read
\* ordinal 29 or 38, or jdf_account_by_customer ordinal 28, the last
\* keystroke dispatch is the one that loads the record, its settle delay
\* has elapsed, and with a host whose redraw takes no longer than that
\* delay the display is settled on the record the host has loaded: the read
\* does not see the record displayed before.
C15_SettleBeforeRead ==
    pc \in FieldReadPcs
    => LET keys == Keystrokes(trace)
       IN  /\ keys # << >>
           /\ keys[Len(keys)].ms = LoadSettleMs
           /\ keys[Len(keys)].keys[Len(keys[Len(keys)].keys)] = "{enter}"
           /\ latency <= LoadSettleMs => (left = 0 /\ shown = cur)

C15_Witness ==
    /\ op = "is_invoice_fully_paid"
    /\ pc = "iifp_read_total"
    /\ latency = 80
    /\ cur = arg.invoice_num
    /\ shown = cur
    /\ left = 0
    /\ PaidRead(EmptyString)

\* the events of a report generator, in the written order: the dispatches
\* with a wait(SHORT_WAIT_MS * 5) between each two
ReportEvents(f, w, starting, ending) ==
    LET inputs == ReportInputs(f, w, starting, ending)
    IN  [i \in 1 .. (2 * Len(inputs) - 1) |->
            IF i % 2 = 1 THEN inputs[(i + 1) \div 2]
            ELSE Ev("wait", NotFound, << >>, SHORT_WAIT_MS * 5)]

\* ms a provider call blocks: send_keys sleeps its interval after every key
\* (hold_send_keys also after the hold key), wait sleeps its duration
Duration(e) ==
    CASE e.ev \in { "send_keys", "hold_send_keys" } -> Len(e.keys) * e.ms
      [] e.ev = "wait" -> e.ms
      [] OTHER -> 0

RECURSIVE Elapsed(_)
Elapsed(tr) == IF tr = << >> THEN 0
               ELSE Duration(Head(tr)) + Elapsed(Tail(tr))
\* ms from the start of the call to the start of event i
StartOf(i) == Elapsed(SubSeq(trace, 1, i - 1))
\* ms from the start of the call to the last key of dispatch i
LastKeyAt(i) == StartOf(i) + Duration(trace[i]) - trace[i].ms
KeystrokeAt == { i \in 1 .. Len(trace) : IsKeystroke(trace[i]) }

\* C16: the events of a report generator are, in the written order, its
\* dispatches with a wait of SHORT_WAIT_MS * 5 between each two; what
\* send_invoice_to_jdf dispatches after an equal read-back is, in the written
\* order, {enter}{esc}, Ctrl+N, {right}{enter}; and in these functions a
\* dispatch never starts before the settle delay (the interval) of the
\* dispatch before it has elapsed since that one's last key.
C16_SequentialWithSettle ==
    /\ op \in ReportOps
         => IsPrefix(trace, ReportEvents(op, arg.window, arg.starting,
                                         arg.ending))
    /\ (op = "send_invoice_to_jdf" /\ ReadBackAt # 0)
         => IsPrefix(SubSeq(trace, ReadBackAt + 1, Len(trace)),
                     NotSentSeq(arg.window))
    /\ op \in ReportOps \cup { "send_invoice_to_jdf" }
         => \A i \in KeystrokeAt : \A j \in KeystrokeAt :
               i < j => StartOf(j) >= LastKeyAt(i) + trace[i].ms

C16_Witness ==
    /\ op = "generate_report_11"
    /\ pc = "done"
    /\ ResultOk
    /\ Len(trace) = 7
    /\ StartOf(7) = 2 * (SHORT_WAIT_MS * 3) + 3 * (SHORT_WAIT_MS * 5)
                       + 3 * (SHORT_WAIT_MS \div 2)

\* C17 (as the spec states it): in load_invoices_screen and
\* load_customer_screen the timeout of the first locate is strictly shorter
\* than the timeout of the locate after the opening macro.
C17_FirstTimeoutShorter ==
    (op \in ScreenOps /\ Len(trace) = 3)
    => trace[1].ms < trace[3].ms

\* C17 (as the code has it): both locates of load_invoices_screen and
\* load_customer_screen use the timeout of create_matcher_wrapper,
\* SHORT_WAIT_MS * 30 = 3000 ms; the first is not shorter than the second.
C17_SameTimeout ==
    op \in ScreenOps
    => \A i \in 1 .. Len(trace) :
          trace[i].ev = "find_first" => trace[i].ms = SHORT_WAIT_MS * 30

C17_Witness ==
    /\ op = "load_invoices_screen"
    /\ pc = "done"
    /\ Len(trace) = 3
    /\ trace[1].ev = "find_first"
    /\ trace[3].ev = "find_first"
    /\ trace[1].ms = 3000
    /\ trace[3].ms = 3000

\* C18: a call of load_invoices_screen (load_customer_screen) that follows
\* at once a call of the same function that returned Ok(e) dispatches no
\* keystroke and returns Ok(e) again; no call dispatches more than its one
\* opening macro, so a run of successful calls dispatches it at most once.
C18_NavigationIdempotent ==
    op \in ScreenOps
    => /\ Len(Inputs(trace)) <= 1
       /\ prev.f = op
            => /\ Inputs(trace) = << >>
               /\ pc = "done" => (ResultOk /\ result.val = prev.val)

C18_Witness ==
    /\ op = "load_customer_screen"
    /\ prev.f = "load_customer_screen"
    /\ prev.val = CustScreen
    /\ pc = "done"
    /\ ResultOk
    /\ result.val = CustScreen
    /\ Inputs(trace) = << >>

\* position of the resubmission macro in the trace (0 if not dispatched)
MacroAt ==
    IF \E i \in 1 .. Len(trace) : trace[i] = ResubmitEv(arg.window)
    THEN CHOOSE i \in 1 .. Len(trace) : trace[i] = ResubmitEv(arg.window)
    ELSE 0

\* C19: in send_invoice_to_jdf the events from the resubmission macro on
\* are, in this order, the macro, the wait of 2000 ms, a locate of the first
\* ThunderRT6TextBox of the invoices screen, and the read of the control that
\* locate returned; the first text box is read nowhere else in the call, and
\* the value compared with the invoice number is the one of that read.
C19_ReadBackOrdering ==
    op = "send_invoice_to_jdf"
    => /\ ReadsOf(TextBox(InvScreen, 0)) \subseteq { ReadBackAt }
       /\ ReadBackAt # 0 => (MacroAt # 0 /\ ReadBackAt = MacroAt + 3)
       /\ pc \in { "sij_read", "sij_ack", "sij_ctrl_n", "sij_discard",
                    "sij_not_sent" } => MacroAt # 0
       /\ pc \in { "sij_ack", "sij_ctrl_n", "sij_discard", "sij_not_sent" }
            => /\ ReadBackAt # 0
               /\ invoice_num_control_value = trace[ReadBackAt].keys
       /\ MacroAt # 0
            => /\ Keystrokes(SubSeq(trace, 1, MacroAt - 1))
                    = << LoadInputs(arg.window, arg.invoice_num)[2] >>
               /\ Len(trace) > MacroAt
                    => trace[MacroAt + 1]
                         = Ev("wait", NotFound, << >>, JDF_SETTLE_MS)
               /\ Len(trace) > MacroAt + 1
                    => /\ trace[MacroAt + 2].ev = "find_first"
                       /\ trace[MacroAt + 2].keys = << "ThunderRT6TextBox" >>
                       /\ trace[MacroAt + 2].target
                            \in { NotFound, TextBox(arg.window, 0) }
                       /\ pc # "done"
                            => invoice_num_control = trace[MacroAt + 2].target
               /\ Len(trace) > MacroAt + 2
                    => /\ trace[MacroAt + 3].ev = "read"
                       /\ trace[MacroAt + 3].target
                            = trace[MacroAt + 2].target

C19_Witness ==
    /\ op = "send_invoice_to_jdf"
    /\ pc = "sij_ack"
    /\ MacroAt # 0
    /\ ReadBackAt = MacroAt + 3
    /\ trace[MacroAt + 2].target = TextBox(InvScreen, 0)
    /\ invoice_num_control_value = to_string(arg.invoice_num)

\* C20: in the not-sent branch of send_invoice_to_jdf the step after the
\* Ctrl+N combination dispatches no keystroke when the "Save changes before
\* proceeding?" dialog is not showing (as send_ctrl_n(window, false) does).
C20_DiscardOnlyWithDialog ==
    [][ (op = "send_invoice_to_jdf" /\ pc = "sij_discard" /\ ~dialog)
        => Keystrokes(trace') = Keystrokes(trace) ]_vars

\* C21: every call of send_invoice_to_jdf, is_invoice_fully_paid,
\* load_invoices_screen and send_ctrl_n terminates, whatever the host does:
\* a call under way leads to its return with an outcome that is Ok or Err;
\* the outcome, once set, is not replaced (the only step left is the caller
\* taking it), and no other function starts before the call has returned.
TerminatingOps ==
    { "send_invoice_to_jdf", "is_invoice_fully_paid", "load_invoices_screen",
      "send_ctrl_n" }

C21_Terminates ==
    /\ (op \in TerminatingOps /\ pc # "done")
          ~> (op \in TerminatingOps /\ pc = "done"
                /\ result.tag \in { "Ok", "Err" })
    /\ [][ result.tag # "None" => (pc = "done" /\ pc' = "idle") ]_vars
    /\ [][ (op \in TerminatingOps /\ op' # op) => pc = "done" ]_vars

C21_Witness ==
    /\ op = "send_ctrl_n"
    /\ pc = "done"
    /\ ResultOk
    /\ popup = NotFound
    /\ latency = 300
    /\ due > 0
    /\ DialogLocateAt # 0

\* positions of the trace where the resubmission macro was dispatched
MacroPositions ==
    { i \in 1 .. Len(trace) : trace[i] = ResubmitEv(arg.window) }
\* positions of the trace where the paid field (ordinal 29) was read
PaidReads == ReadsOf(TextBox(InvScreen, PAID_ORD))

\* C22: in one call of send_invoice_to_jdf the resubmission macro {F9}7R is
\* dispatched at most once, and only after the load keystrokes of that call
\* were dispatched and the paid field (ordinal 29) was read as empty in that
\* call; a call that read a non-empty paid field has ended with Ok(true) and
\* dispatches no macro.
C22_ResubmitOnceAfterEmptyPaid ==
    op = "send_invoice_to_jdf"
    => /\ Cardinality(MacroPositions) <= 1
       /\ \A m \in MacroPositions :
             /\ \E i \in 1 .. m - 1 :
                   trace[i] = LoadInputs(arg.window, arg.invoice_num)[2]
             /\ \E i \in PaidReads : i < m /\ trace[i].keys = EmptyString
       /\ (\E i \in PaidReads : trace[i].keys # EmptyString)
            => /\ MacroPositions = { }
               /\ pc = "done"
               /\ ResultBool(TRUE)

C22_Witness ==
    /\ op = "send_invoice_to_jdf"
    /\ pc = "done"
    /\ Cardinality(MacroPositions) = 1
    /\ PaidRead(EmptyString)
    /\ ResultBool(FALSE)

\* C26: the only inputs is_invoice_fully_paid dispatches, on every path, are
\* those of loading the invoice: the click on the first text box of the
\* invoices screen, then the invoice number followed by the confirm key typed
\* into it.  It dispatches no function-key macro, no new-record combination,
\* no escape and no discard keystroke; a call that went on to read a field
\* has dispatched exactly the two load inputs.
C26_OnlyLoadInputs ==
    op = "is_invoice_fully_paid"
    => /\ IsPrefix(Inputs(trace), LoadInputs(arg.window, arg.invoice_num))
       /\ \A i \in 1 .. Len(trace) :
             IsKeystroke(trace[i])
             => /\ trace[i].ev = "send_keys"
                /\ trace[i].target = TextBox(InvScreen, 0)
                /\ trace[i].keys = LoadKeys(arg.invoice_num)
       /\ (ResultOk \/ HasEv("read") \/ HasEv("find_all"))
            => Inputs(trace) = LoadInputs(arg.window, arg.invoice_num)

C26_Witness ==
    /\ op = "is_invoice_fully_paid"
    /\ pc = "done"
    /\ ResultBool(FALSE)
    /\ Inputs(trace) = LoadInputs(arg.window, arg.invoice_num)
    /\ shown \notin sent

\* the trace of a report generator that follows the pattern: the menu macro,
\* the report selection, the range, with a wait of SHORT_WAIT_MS * 5 between
SimpleReportEvents(w, menu, report, starting, ending) ==
    << Ev("send_keys", w, << "{F10}" >> \o menu, SHORT_WAIT_MS * 3),
       Ev("wait", NotFound, << >>, SHORT_WAIT_MS * 5),
       Ev("send_keys", w, report \o << "{enter}" >>, SHORT_WAIT_MS \div 2),
       Ev("wait", NotFound, << >>, SHORT_WAIT_MS * 5),
       Ev("send_keys", w, RangeKeys(starting, ending), SHORT_WAIT_MS \div 2) >>

\* the trace of generate_simple_report(w, menu, report, ..) is that of the
\* dedicated generator of the report (menu, report)
TraceAsDedicated(menu, report) ==
    LET events == SimpleReportEvents(arg.window, menu, report, arg.starting,
                                     arg.ending)
    IN  /\ IsPrefix(trace, events)
        /\ (pc = "done" /\ ResultOk) => trace = events

\* C25: generate_simple_report(window, "2", "14", s, e) dispatches the same
\* ordered trace as generate_report_214(window, s, e), and with ("3", "23")
\* the same as generate_report_323(window, s, e): the menu macro, the wait,
\* the report selection built from the `report` argument, the wait, the
\* range.
C25_SimpleReportRefines ==
    /\ op = "generate_report_214" => TraceAsDedicated(<< "2" >>, << "1", "4" >>)
    /\ op = "generate_report_323" => TraceAsDedicated(<< "3" >>, << "2", "3" >>)
    /\ op = "generate_simple_report" => TraceAsDedicated(arg.menu, arg.report)

\* C24: when send_ctrl_n has returned Ok(()) no "Save changes before
\* proceeding?" dialog is showing or on its way, whatever the redraw latency
\* of the host, a dialog that shows later than the wait of SHORT_WAIT_MS plus
\* the locate timeout of SHORT_WAIT_MS / 2 included.
C24_NoDialogAfterOk ==
    (op = "send_ctrl_n" /\ pc = "done" /\ ResultOk)
    => (~dialog /\ due = 0)

\* C23 (as the spec states it): for every displayed state on which
\* is_invoice_fully_paid returned Ok(true), the empty paid and total fields
\* included, send_invoice_to_jdf called next and reading the same paid value
\* returns Ok(true) at that read and dispatches no resubmission macro.
C23_FullyPaidNeverResubmitted ==
    (/\ op = "send_invoice_to_jdf"
     /\ prev.f = "is_invoice_fully_paid"
     /\ prev.val.fully_paid
     /\ PaidRead(prev.val.paid))
    => /\ pc = "done"
       /\ ResultBool(TRUE)
       /\ MacroPositions = { }
====
